---------------------------- MODULE Spec2Model ----------------------------
(***************************************************************************)
(* A model of viewer/script.js: the browser-side controller of the message *)
(* archive viewer (search, context view, flag mutation, reaction picker,   *)
(* tabs, timeframe filter and word-frequency statistics).                  *)
(*                                                                         *)
(* Strings are sequences of tokens.  A token is either the separator ":"   *)
(* or " ", or a colon-free and blank-free piece of text ("green",          *)
(* "pending_react", "flag-", an emoji, a chunk of markup).  Concatenation, *)
(* startsWith, split(':') and trim() are computed on these sequences as    *)
(* the JavaScript operations compute them on characters.                   *)
(*                                                                         *)
(* Every async function is two kinds of step: the call (everything up to   *)
(* the first await) and the resumption (everything after the awaited fetch *)
(* and body have completed).  The event loop runs each such step to        *)
(* completion, so each is one action.                                      *)
(*                                                                         *)
(* The repository holds a second, older revision of the script (no tabs,   *)
(* no reaction picker, no timeframe); its searchMessages, viewContext,     *)
(* fetchStats and escapeHtml bodies are the same as the ones modelled.     *)
(***************************************************************************)
EXTENDS Integers, Sequences, FiniteSets, TLC

(***************************************************************************)
(* Bounds of the model.                                                    *)
(***************************************************************************)
MaxMsgId == 2
MaxInFlight == 2
MaxStatsInFlight == 2
MaxEntries == 2
MaxCount == 2
MaxFlagLen == 4
MaxUnsafeLen == 5

MsgIds == 1..MaxMsgId

(***************************************************************************)
(* String helpers (JavaScript String.prototype).                           *)
(***************************************************************************)
Colon == ":"
Blank == " "

startsWith(s, prefix) ==
    /\ Len(s) >= Len(prefix)
    /\ SubSeq(s, 1, Len(prefix)) = prefix

RECURSIVE splitFrom(_, _, _)
\* s.split(sep): cur is the piece being collected, the result is the
\* sequence of all pieces (always at least one).
splitFrom(s, sep, cur) ==
    IF s = << >> THEN << cur >>
    ELSE IF Head(s) = sep THEN << cur >> \o splitFrom(Tail(s), sep, << >>)
    ELSE splitFrom(Tail(s), sep, Append(cur, Head(s)))

split(s, sep) == splitFrom(s, sep, << >>)

RECURSIVE trimStart(_)
trimStart(s) ==
    IF s # << >> /\ Head(s) = Blank THEN trimStart(Tail(s)) ELSE s

RECURSIVE trimEnd(_)
trimEnd(s) ==
    IF s # << >> /\ s[Len(s)] = Blank THEN trimEnd(SubSeq(s, 1, Len(s) - 1)) ELSE s

trim(s) == trimEnd(trimStart(s))

(***************************************************************************)
(* Flag values and glyphs.                                                 *)
(***************************************************************************)
Green == << "green" >>
Red == << "red" >>
None == << "none" >>
PendingPrefix == << "pending_react", Colon >>

GreenIcon == << "(green circle)" >>
RedIcon == << "(red circle)" >>
WhiteIcon == << "(white circle)" >>

EmojiA == << "a" >>
EmojiAB == << "a", Colon, "b" >>
EmojiTokens == { EmojiA, EmojiAB }

pendingReact(emojiStr) == PendingPrefix \o emojiStr

FlagValues == { None, Green, Red } \cup { pendingReact(e) : e \in EmojiTokens }

getFlagIcon(flag) ==
    IF flag = Green THEN GreenIcon
    ELSE IF flag = Red THEN RedIcon
    ELSE IF flag # << >> /\ startsWith(flag, PendingPrefix) THEN
        LET emoji == split(flag, Colon)[2]
        IN  << "<span title=\"Pending reaction: " >> \o emoji
                \o << "\">(hourglass)" >> \o emoji \o << "</span>" >>
    ELSE WhiteIcon

(***************************************************************************)
(* Rendered message nodes.  A node is the element with id "msg-<id>": its  *)
(* class list and the markup of its .flag-indicator.                       *)
(***************************************************************************)
MessageItem == << "message-item" >>
TargetMessage == << "target-message" >>
FlagGreen == << "flag-", "green" >>
FlagRed == << "flag-", "red" >>
FlagPendingReact == << "flag-", "pending_react" >>
FlagClasses == { FlagGreen, FlagRed, FlagPendingReact }

renderMessage(msg, isTarget) ==
    LET flagClass == IF msg.flag = Green THEN { FlagGreen }
                     ELSE IF msg.flag = Red THEN { FlagRed } ELSE { }
    IN  [ id |-> msg.id,
          classList |-> { MessageItem }
                          \cup (IF isTarget THEN { TargetMessage } ELSE { })
                          \cup flagClass,
          icon |-> getFlagIcon(msg.flag) ]

\* Mutant of toggleFlagPatch: the class of the new value is added and the
\* classes of earlier values are not removed.
toggleFlagPatchAddsOnly(el, color) ==
    [ el EXCEPT
        !.classList = @ \cup (IF color # None
                              THEN { << "flag-" >> \o split(color, Colon)[1] }
                              ELSE { }),
        !.icon = getFlagIcon(color) ]

\* The forEach body of toggleFlag applied to one element.
toggleFlagPatch(el, color) ==
    [ el EXCEPT
        !.classList = (@ \ { FlagGreen, FlagRed, FlagPendingReact })
                        \cup (IF color # None
                              THEN { << "flag-" >> \o split(color, Colon)[1] }
                              ELSE { }),
        !.icon = getFlagIcon(color) ]


(***************************************************************************)
(* State.                                                                  *)
(*                                                                         *)
(* A panel (an element whose innerHTML the script assigns) is a record:    *)
(* placeholder is the text of the <p class="placeholder"> it holds ("" if  *)
(* none) and nodes the sequence of elements rendered into it.              *)
(*                                                                         *)
(* A request in flight is a record: op and its arguments, by (the event    *)
(* that issued it), closes (TRUE when selectEmoji awaits it and runs       *)
(* closeModal afterwards) and seen, the stored flags as the backend read   *)
(* them to answer a GET of messages (the empty sequence before that).      *)
(***************************************************************************)
VARIABLES
    db,                        \* backend: the stored flag of each message
    inflight,                  \* requests of the messages tab, in issue order
    messagesList,              \* #messages-list
    contextList,               \* #context-list
    searchPanelDisplay,        \* #search-results-panel style.display
    contextPanelDisplay,       \* #context-panel style.display
    modalDisplay,              \* #reaction-modal style.display
    emojiList,                 \* #emoji-list
    subtitle,                  \* .modal-subtitle innerText
    currentMessageIdForReact,
    promptedFor,               \* history: argument of the last promptReact call
    lastFlagResponse,          \* history: "ok", "notok" or "throw" when the last
                               \* step resumed toggleFlag, "" otherwise
    reactionsOf,               \* history: the message whose reactions #emoji-list
                               \* lists (Null when it lists none)
    overtaken,                 \* history: the flag requests in flight that were
                               \* issued before an already answered successful
                               \* one for the same message with another value
    lastOvertaken,             \* history: TRUE when the last step resumed a
                               \* toggleFlag that was in overtaken
    currentTimeframe,
    activeTab,                 \* the .tab-btn carrying class active
    tabDisplay,                \* style.display of the tab contents and controls
    activeTimeBtn,             \* the .time-btn carrying class active
    frequencyTable,            \* #frequency-table
    statsInflight,             \* word-frequency requests, in issue order
    statsEvent,                \* history: the last event handled on the stats side
    statsFailed,               \* history: some stats response was not a list
    flagIn, iconOut,           \* an argument of getFlagIcon and what it returned
    unsafeIn, escapedOut       \* an argument of escapeHtml and what it returned
                               \* (NotEscaped before the call)

messageVars == << db, inflight, messagesList, contextList, searchPanelDisplay,
                  contextPanelDisplay, modalDisplay, emojiList, subtitle,
                  currentMessageIdForReact, promptedFor, lastFlagResponse,
                  reactionsOf, overtaken, lastOvertaken >>
statsVars == << currentTimeframe, activeTab, tabDisplay, activeTimeBtn,
                frequencyTable, statsInflight, statsEvent, statsFailed >>
codecVars == << flagIn, iconOut, unsafeIn, escapedOut >>
vars == << messageVars, statsVars, codecVars >>

Null == 0
NoResp == [ kind |-> "pending" ]
NoFlagResponse == ""
NotEscaped == << "(not escaped)" >>

Placeholder(text) == [ placeholder |-> text, nodes |-> << >> ]
Rendered(nodes) == [ placeholder |-> "", nodes |-> nodes ]

NodeIds(panel) == { panel.nodes[i].id : i \in 1..Len(panel.nodes) }

\* A message's buttons can be clicked when a node of it is in a displayed
\* panel of the displayed messages tab.
NodeShown(id) ==
    /\ tabDisplay.messagesTab = "block"
    /\ \/ searchPanelDisplay = "flex" /\ id \in NodeIds(messagesList)
       \/ contextPanelDisplay = "flex" /\ id \in NodeIds(contextList)

ModalVisible == modalDisplay = "block"

Timeframes == { "all", "day", "week" }

Request(op, id, color, closes, by) ==
    [ op |-> op, id |-> id, color |-> color, closes |-> closes, by |-> by,
      seen |-> << >> ]

RemoveAt(s, i) == SubSeq(s, 1, i - 1) \o SubSeq(s, i + 1, Len(s))

(***************************************************************************)
(* Init: the state once the script has run to its end.  The last statement *)
(* is fetchStats(), so one word-frequency request is in flight and the     *)
(* frequency table shows its loading placeholder.  Inline display styles   *)
(* start as the page shows them: messages tab and search panel shown,      *)
(* context panel and reaction modal hidden.                                *)
(***************************************************************************)
InitMessages ==
    /\ db = [ i \in MsgIds |-> None ]
    /\ inflight = << >>
    /\ messagesList = Placeholder("(initial)")
    /\ contextList = Placeholder("(initial)")
    /\ searchPanelDisplay = "flex"
    /\ contextPanelDisplay = "none"
    /\ modalDisplay = "none"
    /\ emojiList = [ placeholder |-> "(initial)", chips |-> << >> ]
    /\ subtitle = "(initial)"
    /\ currentMessageIdForReact = Null
    /\ promptedFor = Null
    /\ lastFlagResponse = NoFlagResponse
    /\ reactionsOf = Null
    /\ overtaken = { }
    /\ lastOvertaken = FALSE

InitStats ==
    /\ currentTimeframe = "all"
    /\ activeTab = "messages"
    /\ tabDisplay = [ messagesTab |-> "block", statsTab |-> "none",
                      messagesControls |-> "flex", statsControls |-> "none" ]
    /\ activeTimeBtn = "all"
    /\ frequencyTable = [ placeholder |-> "Loading stats...", bars |-> << >> ]
    /\ statsInflight = << [ timeframe |-> "all" ] >>
    /\ statsEvent = [ name |-> "load", arg |-> "all", data |-> NoResp ]
    /\ statsFailed = FALSE

InitCodec ==
    /\ flagIn = None
    /\ iconOut = getFlagIcon(None)
    /\ unsafeIn = << >>
    /\ escapedOut = NotEscaped

Init == InitMessages /\ InitStats /\ InitCodec

(***************************************************************************)
(* The backend (GET /messages, GET /messages/{id}/context,                 *)
(* PUT /messages/{id}/flag, GET /messages/{id}/reactions).  A response is  *)
(* a record whose kind is "array" (a JSON list, in body), "error" (an      *)
(* object with an error field, in text), "object" (any other JSON value),  *)
(* "throw" (the fetch rejects or the body is not JSON), and for the PUT    *)
(* "ok" or "notok" (response.ok).  The backend stores one flag per message *)
(* and this page is its only writer.  A GET of messages reads the stored   *)
(* flags at some moment between the request and its response; a PUT is     *)
(* stored at the moment its response arrives.                              *)
(***************************************************************************)
RECURSIVE SubSeqs(_)
\* The order-preserving sub-sequences of a sequence of messages.
SubSeqs(s) ==
    IF s = << >> THEN { << >> }
    ELSE LET rest == SubSeqs(Tail(s))
         IN  rest \cup { << Head(s) >> \o r : r \in rest }

Stored(flags) == [ i \in MsgIds |-> [ id |-> i, flag |-> flags[i] ] ]

SearchResponses(flags) ==
    { [ kind |-> "array", body |-> b ] : b \in SubSeqs(Stored(flags)) }
        \cup { [ kind |-> "object" ], [ kind |-> "throw" ] }

ContextResponses(flags) ==
    { [ kind |-> "array", body |-> b ] : b \in SubSeqs(Stored(flags)) }
        \cup { [ kind |-> "error", text |-> "Message not found" ],
               [ kind |-> "object" ], [ kind |-> "throw" ] }

FlagResponses == { [ kind |-> "ok" ], [ kind |-> "notok" ], [ kind |-> "throw" ] }

ReactionResponses ==
    { [ kind |-> "array", body |-> b ] :
            b \in { << >>, << EmojiA >>, << EmojiA, EmojiAB >> } }
        \cup { [ kind |-> "error", text |-> "Unknown Message" ],
               [ kind |-> "object" ], [ kind |-> "throw" ] }

\* The backend reads the stored flags to answer GET request i.
backendRead(i) ==
    /\ i \in 1..Len(inflight)
    /\ inflight[i].op \in { "search", "context" }
    /\ inflight[i].seen = << >>
    /\ inflight' = [ inflight EXCEPT ![i].seen = db ]
    /\ UNCHANGED << db, messagesList, contextList, searchPanelDisplay,
                    contextPanelDisplay, modalDisplay, emojiList, subtitle,
                    currentMessageIdForReact, promptedFor, reactionsOf, overtaken >>
    /\ lastFlagResponse' = NoFlagResponse
    /\ lastOvertaken' = FALSE
    /\ UNCHANGED << statsVars, codecVars >>

(***************************************************************************)
(* searchMessages                                                          *)
(***************************************************************************)
\* Mutant of searchMessages: the context panel is not hidden.
searchMessagesKeepsContext ==
    /\ tabDisplay.messagesControls = "flex"
    /\ Len(inflight) < MaxInFlight
    /\ searchPanelDisplay' = "flex"
    /\ contextPanelDisplay' = contextPanelDisplay
    /\ messagesList' = Placeholder("Loading...")
    /\ inflight' = Append(inflight,
                          Request("search", Null, None, FALSE, [ name |-> "search-btn", arg |-> << >> ]))
    /\ UNCHANGED << db, contextList, modalDisplay, emojiList, subtitle,
                    currentMessageIdForReact, promptedFor, reactionsOf, overtaken >>
    /\ lastFlagResponse' = NoFlagResponse
    /\ lastOvertaken' = FALSE
    /\ UNCHANGED << statsVars, codecVars >>

searchMessages ==
    /\ tabDisplay.messagesControls = "flex"
    /\ Len(inflight) < MaxInFlight
    /\ searchPanelDisplay' = "flex"
    /\ contextPanelDisplay' = "none"
    /\ messagesList' = Placeholder("Loading...")
    /\ inflight' = Append(inflight,
                          Request("search", Null, None, FALSE, [ name |-> "search-btn", arg |-> << >> ]))
    /\ UNCHANGED << db, contextList, modalDisplay, emojiList, subtitle,
                    currentMessageIdForReact, promptedFor, reactionsOf, overtaken >>
    /\ lastFlagResponse' = NoFlagResponse
    /\ lastOvertaken' = FALSE
    /\ UNCHANGED << statsVars, codecVars >>

\* What searchMessages assigns to list.innerHTML once the response is in.
searchMessagesRender(resp) ==
    IF resp.kind = "array"
    THEN IF Len(resp.body) = 0
         THEN Placeholder("No messages found.")
         ELSE Rendered([ k \in 1..Len(resp.body) |-> renderMessage(resp.body[k], FALSE) ])
    ELSE Placeholder("Error fetching data. Is the backend running?")

searchMessagesResume(i) ==
    /\ i \in 1..Len(inflight)
    /\ inflight[i].op = "search"
    /\ inflight[i].seen # << >>
    /\ \E resp \in SearchResponses(inflight[i].seen) :
        messagesList' = searchMessagesRender(resp)
    /\ inflight' = RemoveAt(inflight, i)
    /\ UNCHANGED << db, contextList, searchPanelDisplay, contextPanelDisplay,
                    modalDisplay, emojiList, subtitle, currentMessageIdForReact,
                    promptedFor, reactionsOf, overtaken >>
    /\ lastFlagResponse' = NoFlagResponse
    /\ lastOvertaken' = FALSE
    /\ UNCHANGED << statsVars, codecVars >>

(***************************************************************************)
(* viewContext                                                             *)
(***************************************************************************)
viewContext(messageId) ==
    /\ NodeShown(messageId)
    /\ Len(inflight) < MaxInFlight
    /\ searchPanelDisplay' = "none"
    /\ contextPanelDisplay' = "flex"
    /\ contextList' = Placeholder("Loading context...")
    /\ inflight' = Append(inflight,
                          Request("context", messageId, None, FALSE,
                                  [ name |-> "context-btn", arg |-> << >> ]))
    /\ UNCHANGED << db, messagesList, modalDisplay, emojiList, subtitle,
                    currentMessageIdForReact, promptedFor, reactionsOf, overtaken >>
    /\ lastFlagResponse' = NoFlagResponse
    /\ lastOvertaken' = FALSE
    /\ UNCHANGED << statsVars, codecVars >>

\* Mutant of viewContextRender: without the catch block, a failed fetch or
\* a body that is no list leaves the loading placeholder in the panel.
viewContextRenderNoCatch(resp, messageId) ==
    CASE resp.kind = "error" -> Placeholder(resp.text)
      [] resp.kind = "array" ->
            Rendered([ k \in 1..Len(resp.body) |->
                         renderMessage(resp.body[k], resp.body[k].id = messageId) ])
      [] OTHER -> Placeholder("Loading context...")

\* What viewContext assigns to contextList.innerHTML once the response is in.
viewContextRender(resp, messageId) ==
    CASE resp.kind = "error" -> Placeholder(resp.text)
      [] resp.kind = "array" ->
            Rendered([ k \in 1..Len(resp.body) |->
                         renderMessage(resp.body[k], resp.body[k].id = messageId) ])
      [] OTHER -> Placeholder("Error fetching context.")

viewContextResume(i) ==
    /\ i \in 1..Len(inflight)
    /\ inflight[i].op = "context"
    /\ inflight[i].seen # << >>
    /\ \E resp \in ContextResponses(inflight[i].seen) :
        contextList' = viewContextRender(resp, inflight[i].id)
    /\ inflight' = RemoveAt(inflight, i)
    /\ UNCHANGED << db, messagesList, searchPanelDisplay, contextPanelDisplay,
                    modalDisplay, emojiList, subtitle, currentMessageIdForReact,
                    promptedFor, reactionsOf, overtaken >>
    /\ lastFlagResponse' = NoFlagResponse
    /\ lastOvertaken' = FALSE
    /\ UNCHANGED << statsVars, codecVars >>

contextBack ==
    /\ tabDisplay.messagesTab = "block"
    /\ contextPanelDisplay = "flex"
    /\ searchPanelDisplay' = "flex"
    /\ contextPanelDisplay' = "none"
    /\ UNCHANGED << db, inflight, messagesList, contextList, modalDisplay,
                    emojiList, subtitle, currentMessageIdForReact, promptedFor, reactionsOf, overtaken >>
    /\ lastFlagResponse' = NoFlagResponse
    /\ lastOvertaken' = FALSE
    /\ UNCHANGED << statsVars, codecVars >>

(***************************************************************************)
(* toggleFlag                                                              *)
(***************************************************************************)
\* The flag buttons of a rendered message: Green, Red, Clear.
toggleFlag(messageId, color) ==
    /\ NodeShown(messageId)
    /\ Len(inflight) < MaxInFlight
    /\ inflight' = Append(inflight,
                          Request("flag", messageId, color, FALSE,
                                  [ name |-> "flag-btn", arg |-> color ]))
    /\ UNCHANGED << db, messagesList, contextList, searchPanelDisplay,
                    contextPanelDisplay, modalDisplay, emojiList, subtitle,
                    currentMessageIdForReact, promptedFor, reactionsOf, overtaken >>
    /\ lastFlagResponse' = NoFlagResponse
    /\ lastOvertaken' = FALSE
    /\ UNCHANGED << statsVars, codecVars >>

\* Mutant of toggleFlagDom: only the first element with the id is patched
\* (what document.getElementById would find).
toggleFlagDomFirst(lists, messageId, color) ==
    LET hits == { pk \in { << p, k >> : p \in 1..Len(lists), k \in 1..MaxMsgId } :
                    /\ pk[2] <= Len(lists[pk[1]].nodes)
                    /\ lists[pk[1]].nodes[pk[2]].id = messageId }
        first(pk) == \A h \in hits : pk[1] < h[1] \/ (pk[1] = h[1] /\ pk[2] <= h[2])
    IN  [ p \in 1..Len(lists) |->
            [ lists[p] EXCEPT !.nodes =
                [ k \in 1..Len(lists[p].nodes) |->
                    IF << p, k >> \in hits /\ first(<< p, k >>)
                    THEN toggleFlagPatch(lists[p].nodes[k], color)
                    ELSE lists[p].nodes[k] ] ] ]

\* document.querySelectorAll('[id="msg-<messageId>"]').forEach(...): lists
\* are the panels of the document that hold message elements.
toggleFlagDom(lists, messageId, color) ==
    [ p \in 1..Len(lists) |->
        [ lists[p] EXCEPT !.nodes =
            [ k \in 1..Len(lists[p].nodes) |->
                IF lists[p].nodes[k].id = messageId
                THEN toggleFlagPatch(lists[p].nodes[k], color)
                ELSE lists[p].nodes[k] ] ] ]

\* Mutant of responseOk: any response that arrived counts as success.
responseArrived(resp) == resp.kind # "throw"

\* response.ok
responseOk(resp) == resp.kind = "ok"

\* Mutant of closeModal: the modal is hidden, the identifier is kept.
closeModalKeepsId ==
    /\ modalDisplay' = "none"
    /\ currentMessageIdForReact' = currentMessageIdForReact

\* closeModal(), as the last statement of a step.
closeModal ==
    /\ modalDisplay' = "none"
    /\ currentMessageIdForReact' = Null

\* The flag requests for the message of request i, with another value, that
\* were issued before it and are still in flight.
EarlierFlagRequests(i) ==
    { inflight[k] : k \in { j \in 1..(i - 1) : /\ inflight[j].op = "flag"
                                               /\ inflight[j].id = inflight[i].id
                                               /\ inflight[j].color # inflight[i].color } }

\* The resumption of toggleFlag after its fetch, followed (when selectEmoji
\* awaits it) by closeModal().
toggleFlagResume(i) ==
    /\ i \in 1..Len(inflight)
    /\ inflight[i].op = "flag"
    /\ \E resp \in FlagResponses :
        /\ lastFlagResponse' = resp.kind
        /\ IF responseOk(resp)
           THEN LET dom == toggleFlagDom(<< messagesList, contextList >>,
                                      inflight[i].id, inflight[i].color)
                IN  /\ messagesList' = dom[1]
                    /\ contextList' = dom[2]
                    /\ db' = [ db EXCEPT ![inflight[i].id] = inflight[i].color ]
           ELSE UNCHANGED << db, messagesList, contextList >>
    /\ IF inflight[i].closes
       THEN closeModal
       ELSE UNCHANGED << modalDisplay, currentMessageIdForReact >>
    /\ inflight' = RemoveAt(inflight, i)
    /\ lastOvertaken' = (inflight[i] \in overtaken)
    /\ overtaken' = { r \in overtaken \cup (IF lastFlagResponse' = "ok"
                                            THEN EarlierFlagRequests(i) ELSE { }) :
                        \E k \in 1..Len(inflight') : inflight'[k] = r }
    /\ UNCHANGED << searchPanelDisplay, contextPanelDisplay, emojiList,
                    subtitle, promptedFor, reactionsOf >>
    /\ UNCHANGED << statsVars, codecVars >>

(***************************************************************************)
(* The reaction picker                                                     *)
(***************************************************************************)
EmojiPlaceholder(text) == [ placeholder |-> text, chips |-> << >> ]

promptReact(messageId) ==
    /\ NodeShown(messageId)
    /\ Len(inflight) < MaxInFlight
    /\ currentMessageIdForReact' = messageId
    /\ promptedFor' = messageId
    /\ reactionsOf' = Null
    /\ UNCHANGED overtaken
    /\ modalDisplay' = "block"
    /\ emojiList' = EmojiPlaceholder("Fetching reactions...")
    /\ subtitle' = "Fetching current reactions from Discord..."
    /\ inflight' = Append(inflight,
                          Request("reactions", messageId, None, FALSE,
                                  [ name |-> "react-btn", arg |-> << >> ]))
    /\ UNCHANGED << db, messagesList, contextList, searchPanelDisplay,
                    contextPanelDisplay >>
    /\ lastFlagResponse' = NoFlagResponse
    /\ lastOvertaken' = FALSE
    /\ UNCHANGED << statsVars, codecVars >>

\* list.innerHTML after the response: one chip per reaction, each carrying
\* the emoji_str its onclick passes to selectEmoji.
promptReactList(resp) ==
    CASE resp.kind = "error" -> EmojiPlaceholder("Error: " \o resp.text)
      [] resp.kind = "array" ->
            IF Len(resp.body) = 0
            THEN EmojiPlaceholder("No reactions found on this post.")
            ELSE [ placeholder |-> "", chips |-> resp.body ]
      [] OTHER -> EmojiPlaceholder("Network error.")

\* subtitle.innerText after the response; an object without error and
\* length gets as far as the "Select one of" line before map() throws.
promptReactSubtitle(resp, old) ==
    CASE resp.kind = "error" -> "Failed to fetch reactions."
      [] resp.kind = "array" ->
            IF Len(resp.body) = 0
            THEN "This post has no reactions yet."
            ELSE "Select one of the reactions found:"
      [] resp.kind = "object" -> "Select one of the undefined reactions found:"
      [] OTHER -> old

promptReactResume(i) ==
    /\ i \in 1..Len(inflight)
    /\ inflight[i].op = "reactions"
    /\ \E resp \in ReactionResponses :
        /\ emojiList' = promptReactList(resp)
        /\ subtitle' = promptReactSubtitle(resp, subtitle)
    /\ reactionsOf' = IF emojiList'.chips # << >> THEN inflight[i].id ELSE Null
    /\ inflight' = RemoveAt(inflight, i)
    /\ UNCHANGED << db, messagesList, contextList, searchPanelDisplay,
                    contextPanelDisplay, modalDisplay, currentMessageIdForReact,
                    promptedFor, overtaken >>
    /\ lastFlagResponse' = NoFlagResponse
    /\ lastOvertaken' = FALSE
    /\ UNCHANGED << statsVars, codecVars >>

\* The modal's close control.
closeModalClick ==
    /\ ModalVisible
    /\ closeModal
    /\ UNCHANGED << db, inflight, messagesList, contextList, searchPanelDisplay,
                    contextPanelDisplay, emojiList, subtitle, promptedFor, reactionsOf, overtaken >>
    /\ lastFlagResponse' = NoFlagResponse
    /\ lastOvertaken' = FALSE
    /\ UNCHANGED << statsVars, codecVars >>

\* window.onclick: onModal is event.target == modal (the backdrop, which can
\* be hit only while the modal is displayed).
windowClick(onModal) ==
    /\ onModal => ModalVisible
    /\ IF onModal
       THEN closeModal
       ELSE UNCHANGED << modalDisplay, currentMessageIdForReact >>
    /\ UNCHANGED << db, inflight, messagesList, contextList, searchPanelDisplay,
                    contextPanelDisplay, emojiList, subtitle, promptedFor, reactionsOf, overtaken >>
    /\ lastFlagResponse' = NoFlagResponse
    /\ lastOvertaken' = FALSE
    /\ UNCHANGED << statsVars, codecVars >>

\* Mutant of selectEmojiFlag: the emoji is passed without the prefix.
selectEmojiFlagBare(emojiStr) == emojiStr

\* The flag value selectEmoji passes to toggleFlag.
selectEmojiFlag(emojiStr) == << "pending_react", Colon >> \o emojiStr

\* selectEmoji(emojiStr) up to its await; by names the event that called it.
selectEmojiCall(emojiStr, by) ==
    /\ IF currentMessageIdForReact # Null
       THEN /\ Len(inflight) < MaxInFlight
            /\ inflight' = Append(inflight,
                                  Request("flag", currentMessageIdForReact,
                                          selectEmojiFlag(emojiStr), TRUE, by))
       ELSE UNCHANGED inflight
    /\ UNCHANGED << db, messagesList, contextList, searchPanelDisplay,
                    contextPanelDisplay, modalDisplay, emojiList, subtitle,
                    currentMessageIdForReact, promptedFor, reactionsOf, overtaken >>
    /\ lastFlagResponse' = NoFlagResponse
    /\ lastOvertaken' = FALSE
    /\ UNCHANGED << statsVars, codecVars >>

\* A click on a listed emoji chip.
selectEmoji(k) ==
    /\ ModalVisible
    /\ k \in 1..Len(emojiList.chips)
    /\ selectEmojiCall(emojiList.chips[k], [ name |-> "emoji-chip", arg |-> emojiList.chips[k] ])

\* What prompt() can return: null (cancelled) or the text typed.
PromptCancelled == << "(null)" >>
PromptResults == { PromptCancelled, << >>, << Blank >>, << Blank, "a", Blank >>, EmojiAB }

customReact(emoji) ==
    /\ ModalVisible
    /\ IF emoji # PromptCancelled /\ emoji # << >> /\ trim(emoji) # << >>
       THEN selectEmojiCall(trim(emoji), [ name |-> "custom", arg |-> emoji ])
       ELSE /\ lastFlagResponse' = NoFlagResponse
            /\ lastOvertaken' = FALSE
            /\ UNCHANGED << db, inflight, messagesList, contextList,
                            searchPanelDisplay, contextPanelDisplay, modalDisplay,
                            emojiList, subtitle, currentMessageIdForReact,
                            promptedFor, reactionsOf, overtaken >>
            /\ UNCHANGED << statsVars, codecVars >>


(***************************************************************************)
(* escapeHtml: five replace passes, in the order of the source.            *)
(***************************************************************************)
RECURSIVE replaceAll(_, _, _)
\* s.replace(/c/g, rep) for a single character c.
replaceAll(s, c, rep) ==
    IF s = << >> THEN << >>
    ELSE (IF Head(s) = c THEN rep ELSE << Head(s) >>) \o replaceAll(Tail(s), c, rep)

\* Mutant of escapeHtml: the ampersand is replaced last.
escapeHtmlAmpLast(unsafe) ==
    LET p1 == replaceAll(unsafe, "<", << "&", "l", "t", ";" >>)
        p2 == replaceAll(p1, ">", << "&", "g", "t", ";" >>)
        p3 == replaceAll(p2, "\"", << "&", "q", "u", "o", "t", ";" >>)
        p4 == replaceAll(p3, "'", << "&", "#", "0", "3", "9", ";" >>)
    IN  replaceAll(p4, "&", << "&", "a", "m", "p", ";" >>)

escapeHtml(unsafe) ==
    LET p1 == replaceAll(unsafe, "&", << "&", "a", "m", "p", ";" >>)
        p2 == replaceAll(p1, "<", << "&", "l", "t", ";" >>)
        p3 == replaceAll(p2, ">", << "&", "g", "t", ";" >>)
        p4 == replaceAll(p3, "\"", << "&", "q", "u", "o", "t", ";" >>)
    IN  replaceAll(p4, "'", << "&", "#", "0", "3", "9", ";" >>)

(***************************************************************************)
(* JavaScript numbers, as far as fetchStats uses them: a quotient of two   *)
(* non-negative integers times 100.  A number is NaN, or the fraction      *)
(* num/den in lowest terms (den = 0 for Infinity); rounding to a double is *)
(* not modelled.                                                           *)
(***************************************************************************)
RECURSIVE gcd(_, _)
gcd(a, b) == IF b = 0 THEN a ELSE gcd(b, a % b)

NaN == [ nan |-> TRUE, num |-> 0, den |-> 0 ]

Fraction(n, d) ==
    IF d = 0
    THEN (IF n = 0 THEN NaN ELSE [ nan |-> FALSE, num |-> 1, den |-> 0 ])
    ELSE [ nan |-> FALSE, num |-> n \div gcd(n, d), den |-> d \div gcd(n, d) ]

\* a / b
divide(a, b) == Fraction(a, b)

\* x * k
times(x, k) == IF x.nan THEN NaN ELSE Fraction(x.num * k, x.den)

RECURSIVE mathMax(_)
\* Math.max(...counts) for a non-empty sequence.
mathMax(counts) ==
    IF Len(counts) = 1 THEN counts[1]
    ELSE LET m == mathMax(Tail(counts))
         IN  IF counts[1] > m THEN counts[1] ELSE m

(***************************************************************************)
(* Tabs, timeframe filter and fetchStats                                   *)
(***************************************************************************)
StatWords == << << "a" >>, << "b", "&" >>, << "c" >> >>

\* GET /stats/word-frequency: a list of up to MaxEntries words with their
\* counts, an object that is no list, or a failure.
StatsResponses ==
    UNION { { [ kind |-> "array",
                body |-> [ k \in 1..n |->
                             [ word |-> StatWords[((k - 1) % Len(StatWords)) + 1],
                               count |-> c[k] ] ] ] :
              c \in [ 1..n -> 0..MaxCount ] } : n \in 0..MaxEntries }
    \cup { [ kind |-> "object" ], [ kind |-> "throw" ] }

\* fetchStats(timeframe) up to its await.
fetchStats(timeframe) ==
    /\ Len(statsInflight) < MaxStatsInFlight
    /\ frequencyTable' = [ placeholder |-> "Loading stats...", bars |-> << >> ]
    /\ statsInflight' = Append(statsInflight, [ timeframe |-> timeframe ])

\* The width of one bar: (s.count / maxCount) * 100.
barWidth(count, maxCount) == times(divide(count, maxCount), 100)

\* container.innerHTML after the response.
fetchStatsRender(resp) ==
    IF resp.kind = "array"
    THEN IF Len(resp.body) = 0
         THEN [ placeholder |-> "Not enough data to generate stats.", bars |-> << >> ]
         ELSE LET maxCount == mathMax([ k \in 1..Len(resp.body) |-> resp.body[k].count ])
              IN  [ placeholder |-> "",
                    bars |-> [ k \in 1..Len(resp.body) |->
                                 [ word |-> escapeHtml(resp.body[k].word),
                                   width |-> barWidth(resp.body[k].count, maxCount),
                                   count |-> resp.body[k].count ] ] ]
    ELSE [ placeholder |-> "Error fetching stats.", bars |-> << >> ]

fetchStatsResume(i) ==
    /\ i \in 1..Len(statsInflight)
    /\ \E resp \in StatsResponses :
        /\ frequencyTable' = fetchStatsRender(resp)
        /\ statsEvent' = [ name |-> "response", arg |-> statsInflight[i].timeframe, data |-> resp ]
        /\ statsFailed' = (statsFailed \/ resp.kind # "array")
    /\ statsInflight' = RemoveAt(statsInflight, i)
    /\ UNCHANGED << currentTimeframe, activeTab, tabDisplay, activeTimeBtn >>
    /\ UNCHANGED << messageVars, codecVars >>

\* A click on a .tab-btn whose data-tab is tab.
tabClick(tab) ==
    /\ activeTab' = tab
    /\ tabDisplay' = [ messagesTab |-> IF tab = "messages" THEN "block" ELSE "none",
                       statsTab |-> IF tab = "stats" THEN "block" ELSE "none",
                       messagesControls |-> IF tab = "messages" THEN "flex" ELSE "none",
                       statsControls |-> IF tab = "stats" THEN "flex" ELSE "none" ]
    /\ IF tab = "stats"
       THEN fetchStats(currentTimeframe)
       ELSE UNCHANGED << frequencyTable, statsInflight >>
    /\ statsEvent' = [ name |-> "tab-btn", arg |-> tab, data |-> NoResp ]
    /\ UNCHANGED << currentTimeframe, activeTimeBtn, statsFailed >>
    /\ UNCHANGED << messageVars, codecVars >>

\* Mutant of timeClick: the fetch is started before currentTimeframe is set.
timeClickStale(time) ==
    /\ tabDisplay.statsControls = "flex"
    /\ currentTimeframe' = time
    /\ activeTimeBtn' = time
    /\ fetchStats(currentTimeframe)
    /\ statsEvent' = [ name |-> "time-btn", arg |-> time, data |-> NoResp ]
    /\ UNCHANGED << activeTab, tabDisplay, statsFailed >>
    /\ UNCHANGED << messageVars, codecVars >>

\* A click on a .time-btn whose data-time is time.
timeClick(time) ==
    /\ tabDisplay.statsControls = "flex"
    /\ currentTimeframe' = time
    /\ activeTimeBtn' = time
    /\ fetchStats(time)
    /\ statsEvent' = [ name |-> "time-btn", arg |-> time, data |-> NoResp ]
    /\ UNCHANGED << activeTab, tabDisplay, statsFailed >>
    /\ UNCHANGED << messageVars, codecVars >>

\* A click on #refresh-stats.
refreshStats ==
    /\ tabDisplay.statsControls = "flex"
    /\ fetchStats(currentTimeframe)
    /\ statsEvent' = [ name |-> "refresh-stats", arg |-> currentTimeframe, data |-> NoResp ]
    /\ UNCHANGED << currentTimeframe, activeTab, tabDisplay, activeTimeBtn, statsFailed >>
    /\ UNCHANGED << messageVars, codecVars >>

(***************************************************************************)
(* getFlagIcon applied to arbitrary flag strings.                          *)
(***************************************************************************)
FlagAlphabet == { "pending_react", Colon, "a", "b", "green" }

RECURSIVE Strings(_, _)
\* The sequences over alphabet of length up to n.
Strings(alphabet, n) ==
    IF n = 0 THEN { << >> }
    ELSE LET shorter == Strings(alphabet, n - 1)
         IN  shorter \cup { Append(s, c) : s \in shorter, c \in alphabet }

getFlagIconCall ==
    /\ \E flag \in Strings(FlagAlphabet, MaxFlagLen) :
        /\ flagIn' = flag
        /\ iconOut' = getFlagIcon(flag)
    /\ UNCHANGED << unsafeIn, escapedOut >>
    /\ UNCHANGED << messageVars, statsVars >>

(***************************************************************************)
(* escapeHtml applied to arbitrary text.                                   *)
(***************************************************************************)
EscapeAlphabet == { "&", "<", ">", "\"", "'", "a", "m", "p", ";" }

\* The page with some text about to be escaped.
InitEscape ==
    /\ InitMessages
    /\ InitStats
    /\ flagIn = None
    /\ iconOut = getFlagIcon(None)
    /\ unsafeIn \in Strings(EscapeAlphabet, MaxUnsafeLen)
    /\ escapedOut = NotEscaped

escapeHtmlCall ==
    /\ escapedOut = NotEscaped
    /\ escapedOut' = escapeHtml(unsafeIn)
    /\ UNCHANGED << unsafeIn, flagIn, iconOut >>
    /\ UNCHANGED << messageVars, statsVars >>

(***************************************************************************)
(* Specifications.  The messages side, the statistics side and the two     *)
(* text functions write no variable in common (the messages side only      *)
(* reads which tab is displayed), so each is explored on its own.          *)
(***************************************************************************)
Next ==
    \/ searchMessages
    \/ \E i \in 1..MaxInFlight : backendRead(i)
    \/ \E i \in 1..MaxInFlight : searchMessagesResume(i)
    \/ \E id \in MsgIds : viewContext(id)
    \/ \E i \in 1..MaxInFlight : viewContextResume(i)
    \/ contextBack
    \/ \E id \in MsgIds, color \in { Green, Red, None } : toggleFlag(id, color)
    \/ \E i \in 1..MaxInFlight : toggleFlagResume(i)

Spec == Init /\ [][Next]_vars

NextModal ==
    \/ searchMessages
    \/ \E i \in 1..MaxInFlight : backendRead(i)
    \/ \E i \in 1..MaxInFlight : searchMessagesResume(i)
    \/ \E id \in MsgIds : promptReact(id)
    \/ \E i \in 1..MaxInFlight : promptReactResume(i)
    \/ closeModalClick
    \/ \E onModal \in BOOLEAN : windowClick(onModal)
    \/ \E k \in 1..Cardinality(EmojiTokens) : selectEmoji(k)
    \/ \E emoji \in PromptResults : customReact(emoji)
    \/ \E i \in 1..MaxInFlight : toggleFlagResume(i)

SpecModal == Init /\ [][NextModal]_vars

NextStats ==
    \/ \E tab \in { "messages", "stats" } : tabClick(tab)
    \/ \E time \in Timeframes : timeClick(time)
    \/ refreshStats
    \/ \E i \in 1..MaxStatsInFlight : fetchStatsResume(i)

SpecStats == Init /\ [][NextStats]_vars

SpecCodec == Init /\ [][getFlagIconCall]_vars

\* The four fetching operations together: the messages tab while the
\* fetchStats() of the page load is completing.
NextFetch ==
    \/ searchMessages
    \/ \E i \in 1..MaxInFlight : backendRead(i)
    \/ \E i \in 1..MaxInFlight : searchMessagesResume(i)
    \/ \E id \in MsgIds : viewContext(id)
    \/ \E i \in 1..MaxInFlight : viewContextResume(i)
    \/ \E id \in MsgIds : promptReact(id)
    \/ \E i \in 1..MaxInFlight : promptReactResume(i)
    \/ \E i \in 1..MaxStatsInFlight : fetchStatsResume(i)

SpecFetch == Init /\ [][NextFetch]_vars

SpecEscape == InitEscape /\ [][escapeHtmlCall]_vars


(***************************************************************************)
(* Properties                                                              *)
(***************************************************************************)
AllNodes == { messagesList.nodes[k] : k \in 1..Len(messagesList.nodes) }
                \cup { contextList.nodes[k] : k \in 1..Len(contextList.nodes) }

FlagClassOf(node) == node.classList \cap FlagClasses

\* C1: once no request is in flight, all rendered nodes that carry the same
\* message identifier (in the search list and in the context list) show the
\* same flag class and the same flag icon.
C1_NodesConverge ==
    inflight = << >> =>
        \A n1, n2 \in AllNodes :
            n1.id = n2.id => /\ FlagClassOf(n1) = FlagClassOf(n2)
                             /\ n1.icon = n2.icon


ExpectedFlagClass(value) ==
    IF value = None THEN { }
    ELSE IF value = Green THEN { FlagGreen }
    ELSE IF value = Red THEN { FlagRed }
    ELSE { FlagPendingReact }

PendingIcon(emoji) ==
    << "<span title=\"Pending reaction: " >> \o emoji
        \o << "\">(hourglass)" >> \o emoji \o << "</span>" >>

IsIconOf(icon, value) ==
    IF value = Green THEN icon = GreenIcon
    ELSE IF value = Red THEN icon = RedIcon
    ELSE IF value = None THEN icon = WhiteIcon
    ELSE \E n \in 0..Len(value) : icon = PendingIcon(SubSeq(value, 3, n))

\* new is old with exactly the nodes of message id showing value.
PatchedAll(old, new, id, value) ==
    /\ new.placeholder = old.placeholder
    /\ Len(new.nodes) = Len(old.nodes)
    /\ \A k \in 1..Len(old.nodes) :
        IF old.nodes[k].id = id
        THEN /\ new.nodes[k].id = id
             /\ FlagClassOf(new.nodes[k]) = ExpectedFlagClass(value)
             /\ new.nodes[k].classList \ FlagClasses = old.nodes[k].classList \ FlagClasses
             /\ IsIconOf(new.nodes[k].icon, value)
        ELSE new.nodes[k] = old.nodes[k]

\* C2: when a toggleFlag(messageId, value) request gets a successful
\* response, every node of that message, in the search list and in the
\* context list, ends with the flag class and the flag icon of value, and
\* the nodes of other messages are unchanged.
C2_ToggleUpdatesAll ==
    [][ lastFlagResponse' = "ok" =>
            \E i \in 1..Len(inflight) :
                /\ inflight[i].op = "flag"
                /\ inflight' = RemoveAt(inflight, i)
                /\ PatchedAll(messagesList, messagesList', inflight[i].id, inflight[i].color)
                /\ PatchedAll(contextList, contextList', inflight[i].id, inflight[i].color)
      ]_vars

\* A successful toggle has just patched a message shown in both lists to
\* green, next to a node of another message that is not green.
C2_Witness ==
    /\ lastFlagResponse = "ok"
    /\ \E id \in NodeIds(messagesList) \cap NodeIds(contextList) :
        /\ \A n \in AllNodes : n.id = id => FlagClassOf(n) = { FlagGreen } /\ n.icon = GreenIcon
        /\ \E n \in AllNodes : n.id # id /\ n.icon # GreenIcon

\* C3: when a toggleFlag request fails (the fetch throws or the response is
\* not ok), the step that handles the failure leaves every node as it was
\* and writes no error into any panel.
C3_FailedToggleChangesNothing ==
    [][ lastFlagResponse' \in { "notok", "throw" } =>
            /\ messagesList' = messagesList
            /\ contextList' = contextList
            /\ emojiList' = emojiList
            /\ frequencyTable' = frequencyTable
      ]_vars

\* A toggle with a not-ok response has just been handled while the message
\* lists hold nodes that are not green.
C3_Witness ==
    /\ lastFlagResponse = "notok"
    /\ \E n \in AllNodes : n.icon = WhiteIcon
    /\ messagesList.nodes # << >>
    /\ contextList.nodes # << >>

\* C4: in every state reached by promptReact, closeModal, selectEmoji,
\* customReact, window clicks and the completion of their requests,
\* currentMessageIdForReact is non-null if and only if the modal is visible.
C4_IdIffModalVisible ==
    (currentMessageIdForReact # Null) <=> ModalVisible

\* The modal is open for message 2 and lists candidates while a flag request
\* of an earlier selection is still in flight.
C4_Witness ==
    /\ ModalVisible
    /\ currentMessageIdForReact = 2
    /\ emojiList.chips # << >>
    /\ \E i \in 1..Len(inflight) : inflight[i].closes

\* C5: while the modal is open it is bound to the message promptReact was
\* called with; selecting a listed candidate e then sends the flag mutation
\* for that message with the value pending_react:e, and the modal is closed
\* when that request completes.
C5_SelectSendsPendingReact ==
    [][ /\ ModalVisible => currentMessageIdForReact = promptedFor
        /\ \A r \in { inflight'[k] : k \in 1..Len(inflight') } :
              (inflight' = Append(inflight, r) /\ r.by.name = "emoji-chip") =>
                  /\ ModalVisible
                  /\ \E k \in 1..Len(emojiList.chips) : emojiList.chips[k] = r.by.arg
                  /\ r.op = "flag"
                  /\ r.id = promptedFor
                  /\ r.color = PendingPrefix \o r.by.arg
        /\ \A i \in 1..Len(inflight) :
              (inflight' = RemoveAt(inflight, i) /\ inflight[i].by.name = "emoji-chip") =>
                  /\ ~ ModalVisible'
                  /\ currentMessageIdForReact' = Null
      ]_vars

\* The request of a selected candidate a:b for message 2 is in flight.
C5_Witness ==
    \E i \in 1..Len(inflight) :
        /\ inflight[i].by = [ name |-> "emoji-chip", arg |-> EmojiAB ]
        /\ inflight[i].id = 2
        /\ inflight[i].color = PendingPrefix \o EmojiAB
        /\ promptedFor = 2

\* C6: for every flag value that starts with pending_react:, the emoji shown
\* by the icon is everything after the first colon (pending_react:a:b shows
\* a:b).
C6_EmojiIsRestAfterFirstColon ==
    startsWith(flagIn, PendingPrefix) =>
        iconOut = PendingIcon(SubSeq(flagIn, Len(PendingPrefix) + 1, Len(flagIn)))


\* The response fetchStats has just rendered, when the last step was one.
Rendering == statsEvent.name = "response" /\ statsEvent.data.kind = "array"

\* C7: for every non-empty result set whose counts are non-negative
\* integers, the maximum count, the divisor of each bar's ratio, is greater
\* than zero: no bar's width comes from a division by zero.
C7_NoDivisionByZero ==
    (Rendering /\ Len(statsEvent.data.body) > 0) =>
        \A k \in 1..Len(frequencyTable.bars) :
            /\ ~ frequencyTable.bars[k].width.nan
            /\ frequencyTable.bars[k].width.den # 0

\* C8: an empty result is rendered as the explanatory placeholder, with no
\* bar; a non-empty one as one bar per entry, in order, whose width in
\* percent w satisfies w * max = 100 * count, max being the largest count.
C8_BarsProportional ==
    Rendering =>
        LET body == statsEvent.data.body
            counts == { body[k].count : k \in 1..Len(body) }
            max == CHOOSE m \in counts : \A c \in counts : c <= m
        IN  IF Len(body) = 0
            THEN frequencyTable = [ placeholder |-> "Not enough data to generate stats.",
                                    bars |-> << >> ]
            ELSE /\ frequencyTable.placeholder = ""
                 /\ Len(frequencyTable.bars) = Len(body)
                 /\ \A k \in 1..Len(body) :
                      LET bar == frequencyTable.bars[k]
                      IN  /\ bar.count = body[k].count
                          /\ ~ bar.width.nan
                          /\ bar.width.num * max = 100 * body[k].count * bar.width.den

\* C9: between the start of a call's fetch for a panel and that call's
\* render into it no second call for the same panel starts: the frequency
\* table never has two calls of fetchStats in flight.
C9_OneCallPerPanel ==
    Len(statsInflight) <= 1

\* C10: selecting the stats tab and clicking a timeframe button each start a
\* stats fetch for the timeframe that is current after the event; selecting
\* the messages tab starts none and leaves currentTimeframe unchanged.
C10_RefetchOnTabAndTimeframe ==
    [][ /\ (statsEvent'.name = "tab-btn" /\ statsEvent'.arg = "stats") =>
              /\ currentTimeframe' = currentTimeframe
              /\ statsInflight' = Append(statsInflight, [ timeframe |-> currentTimeframe' ])
        /\ statsEvent'.name = "time-btn" =>
              /\ currentTimeframe' = statsEvent'.arg
              /\ statsInflight' = Append(statsInflight, [ timeframe |-> currentTimeframe' ])
        /\ (statsEvent'.name = "tab-btn" /\ statsEvent'.arg = "messages") =>
              /\ currentTimeframe' = currentTimeframe
              /\ statsInflight' = statsInflight
              /\ frequencyTable' = frequencyTable
      ]_vars

\* A click on the week button, with the timeframe at day before, has just
\* started a second fetch.
C10_Witness ==
    /\ statsEvent.name = "time-btn"
    /\ statsEvent.arg = "week"
    /\ currentTimeframe = "week"
    /\ Len(statsInflight) = 2
    /\ statsInflight[1].timeframe = "day"
    /\ statsInflight[2].timeframe = "week"

(***************************************************************************)
(* Responses that carry an empty list                                      *)
(***************************************************************************)
EmptyList == [ kind |-> "array", body |-> << >> ]

\* The texts of the generic error placeholders and of the backend's errors.
ErrorTexts ==
    { "Error fetching data. Is the backend running?", "Error fetching context.",
      "Network error.", "Error fetching stats.",
      "Message not found", "Error: Unknown Message" }

LoadingTexts ==
    { "Loading...", "Loading context...", "Fetching reactions...", "Loading stats..." }

\* A placeholder that is neither empty, nor an error, nor a loading text.
NothingToShow(text) == text \notin ({ "" } \cup ErrorTexts \cup LoadingTexts)

\* C11: in searchMessages and viewContext (and likewise promptReact and
\* fetchStats), whenever the step that handles a response leaves the panel
\* with what the handler renders for an empty list, the panel shows a
\* placeholder that says there is nothing to show: not an error text and
\* not an empty panel.
C11_EmptyListShowsPlaceholder ==
    [][ \A i \in 1..Len(inflight) :
          inflight' = RemoveAt(inflight, i) =>
            /\ (inflight[i].op = "search"
                    /\ messagesList' = searchMessagesRender(EmptyList)) =>
                  /\ messagesList'.nodes = << >>
                  /\ NothingToShow(messagesList'.placeholder)
            /\ (inflight[i].op = "context"
                    /\ contextList' = viewContextRender(EmptyList, inflight[i].id)) =>
                  /\ contextList'.nodes = << >>
                  /\ NothingToShow(contextList'.placeholder)
      ]_vars

\* The same for searchMessages alone.
C11_SearchEmpty ==
    [][ \A i \in 1..Len(inflight) :
          (inflight' = RemoveAt(inflight, i) /\ inflight[i].op = "search"
                /\ messagesList' = searchMessagesRender(EmptyList)) =>
              /\ messagesList'.nodes = << >>
              /\ NothingToShow(messagesList'.placeholder)
      ]_vars

\* The same for promptReact alone.
C11_ReactionsEmpty ==
    [][ \A i \in 1..Len(inflight) :
          (inflight' = RemoveAt(inflight, i) /\ inflight[i].op = "reactions"
                /\ emojiList' = promptReactList(EmptyList)) =>
              /\ emojiList'.chips = << >>
              /\ NothingToShow(emojiList'.placeholder)
      ]_vars

\* The same for fetchStats alone.
C11_StatsEmpty ==
    (statsEvent.name = "response" /\ statsEvent.data = EmptyList) =>
        /\ frequencyTable.bars = << >>
        /\ NothingToShow(frequencyTable.placeholder)

(***************************************************************************)
(* Panel visibility                                                        *)
(***************************************************************************)
SearchPanelShown == searchPanelDisplay = "flex" /\ contextPanelDisplay = "none"
ContextPanelShown == searchPanelDisplay = "none" /\ contextPanelDisplay = "flex"

\* The last request of inflight' was issued by this step and is of kind op.
Issued(op) ==
    /\ Len(inflight') = Len(inflight) + 1
    /\ SubSeq(inflight', 1, Len(inflight)) = inflight
    /\ inflight'[Len(inflight')].op = op

\* C15: exactly one of the search-results panel and the context panel is
\* displayed in every state; a call of searchMessages ends with the search
\* panel displayed and a call of viewContext with the context panel, each
\* before its response arrives; a step that issues no request and changes
\* the display (the back click) ends with the search panel; and a step that
\* handles a response leaves the displayed panel as it is.
C15_ExactlyOnePanel ==
    /\ [](SearchPanelShown \/ ContextPanelShown)
    /\ [][ /\ Issued("search") => SearchPanelShown'
           /\ Issued("context") => ContextPanelShown'
           /\ (Len(inflight') = Len(inflight)
                  /\ << searchPanelDisplay, contextPanelDisplay >>'
                        # << searchPanelDisplay, contextPanelDisplay >>)
                => (ContextPanelShown /\ SearchPanelShown')
           /\ Len(inflight') < Len(inflight) =>
                << searchPanelDisplay, contextPanelDisplay >>'
                    = << searchPanelDisplay, contextPanelDisplay >>
      ]_vars

\* The context panel is displayed and holds rendered messages, and every
\* request has been answered, the last of them a search that was issued
\* before viewContext and found nothing.
C15_Witness ==
    /\ ContextPanelShown
    /\ contextList.nodes # << >>
    /\ messagesList.placeholder = "No messages found."
    /\ inflight = << >>

(***************************************************************************)
(* Patching in place against rendering afresh                              *)
(***************************************************************************)
\* The node of message id has the flag class and the flag icon of a node
\* that renderMessage produces for a message whose flag is value.
LooksFreshlyRendered(node, value) ==
    LET fresh == renderMessage([ id |-> node.id, flag |-> value ], FALSE)
    IN  /\ FlagClassOf(node) = FlagClassOf(fresh)
        /\ node.icon = fresh.icon

\* C16: when toggleFlag(id, v) gets a successful response, every node of
\* message id that it has patched in place has the flag class and the flag
\* icon that renderMessage gives a message whose flag is v.
C16_PatchEqualsRender ==
    [][ lastFlagResponse' = "ok" =>
          \A i \in 1..Len(inflight) :
            (inflight[i].op = "flag" /\ inflight' = RemoveAt(inflight, i)) =>
              \A n \in AllNodes' :
                n.id = inflight[i].id => LooksFreshlyRendered(n, inflight[i].color)
      ]_vars

(***************************************************************************)
(* Responses that arrive late                                              *)
(***************************************************************************)
\* C18: once no stats request is in flight, every response so far was a
\* list and the last step has rendered one, the frequency table shows the result of a request made
\* for the current value of currentTimeframe, which is also the timeframe
\* of the button marked active.
C18_TableOfCurrentTimeframe ==
    /\ activeTimeBtn = currentTimeframe
    /\ (statsInflight = << >> /\ ~ statsFailed /\ Rendering) =>
            statsEvent.arg = currentTimeframe

\* C19: when the flag request of a selection completes while the modal is
\* open for another message than the one the selection was made for, the
\* closeModal of that selection leaves the modal visible and
\* currentMessageIdForReact unchanged.
C19_CloseOnlyOwnSession ==
    [][ \A i \in 1..Len(inflight) :
          (/\ inflight' = RemoveAt(inflight, i)
           /\ inflight[i].op = "flag"
           /\ inflight[i].closes
           /\ ModalVisible
           /\ currentMessageIdForReact # inflight[i].id) =>
              /\ ModalVisible'
              /\ currentMessageIdForReact' = currentMessageIdForReact
      ]_vars

\* C17: whenever the modal is visible and lists reaction candidates, they
\* are the candidates fetched for the message held in
\* currentMessageIdForReact.
C17_CandidatesOfCurrentMessage ==
    (ModalVisible /\ emojiList.chips # << >>) =>
        reactionsOf = currentMessageIdForReact

\* Request i is a toggleFlag call that has been in flight together with
\* another toggleFlag call for the same message.
ConcurrentToggle(i) ==
    /\ inflight[i].op = "flag"
    /\ \/ inflight[i] \in overtaken
       \/ \E k \in 1..Len(inflight) :
            /\ k # i
            /\ inflight[k].op = "flag"
            /\ inflight[k].id = inflight[i].id

\* C12: when the successful response of a toggleFlag call that was in flight
\* together with other calls for the same message is processed, every node
\* of the message shows the class and icon of that call's value, whether the
\* call was issued before or after the others; so after the last of the
\* responses the nodes show the value of the call processed last.
C12_LastResponseWins ==
    [][ lastFlagResponse' = "ok" =>
          \A i \in 1..Len(inflight) :
            (ConcurrentToggle(i) /\ inflight' = RemoveAt(inflight, i)) =>
              \A n \in AllNodes' :
                n.id = inflight[i].id =>
                    /\ FlagClassOf(n) = ExpectedFlagClass(inflight[i].color)
                    /\ IsIconOf(n.icon, inflight[i].color)
      ]_vars

\* Two calls with different values for a message shown in both lists were
\* in flight at once; the response of the later call was processed first,
\* the response of the earlier call has just been processed, both were
\* successful, no flag request is left and the nodes show red.
C12_Witness ==
    /\ lastFlagResponse = "ok"
    /\ lastOvertaken
    /\ \A k \in 1..Len(inflight) : inflight[k].op # "flag"
    /\ \E id \in NodeIds(messagesList) \cap NodeIds(contextList) :
        \A n \in AllNodes : n.id = id => FlagClassOf(n) = { FlagRed } /\ n.icon = RedIcon

(***************************************************************************)
(* Escaped text                                                            *)
(***************************************************************************)
\* The character references an HTML parser decodes, as far as escapeHtml
\* emits them.
Entities ==
    { [ char |-> "&", text |-> << "&", "a", "m", "p", ";" >> ],
      [ char |-> "<", text |-> << "&", "l", "t", ";" >> ],
      [ char |-> ">", text |-> << "&", "g", "t", ";" >> ],
      [ char |-> "\"", text |-> << "&", "q", "u", "o", "t", ";" >> ],
      [ char |-> "'", text |-> << "&", "#", "0", "3", "9", ";" >> ] }

EntityAt(s, i) ==
    { e \in Entities : /\ i + Len(e.text) - 1 <= Len(s)
                       /\ SubSeq(s, i, i + Len(e.text) - 1) = e.text }

RECURSIVE decodeFrom(_, _)
\* The text an HTML parser shows for markup s read from position i: each of
\* the five references is decoded once, any other character stands for
\* itself.
decodeFrom(s, i) ==
    IF i > Len(s) THEN << >>
    ELSE IF EntityAt(s, i) # { }
         THEN LET e == CHOOSE e \in EntityAt(s, i) : TRUE
              IN  << e.char >> \o decodeFrom(s, i + Len(e.text))
         ELSE << s[i] >> \o decodeFrom(s, i + 1)

\* C13: the text escapeHtml returns has no raw <, >, " or ', every & in it
\* begins one of the five references, and decoding the references once
\* gives back the input (so an input that holds &amp; comes back as &amp;).
C13_EscapeRoundTrip ==
    escapedOut # NotEscaped =>
        /\ \A i \in 1..Len(escapedOut) :
            /\ escapedOut[i] \notin { "<", ">", "\"", "'" }
            /\ escapedOut[i] = "&" => EntityAt(escapedOut, i) # { }
        /\ decodeFrom(escapedOut, 1) = unsafeIn

\* The input &amp; has been escaped again, to &amp;amp;.
C13_Witness ==
    /\ unsafeIn = << "&", "a", "m", "p", ";" >>
    /\ escapedOut = << "&", "a", "m", "p", ";", "a", "m", "p", ";" >>

(***************************************************************************)
(* Completion of a fetch, whatever its outcome                             *)
(***************************************************************************)
\* A call for the same panel that was issued after request i is in flight.
LaterCall(i) ==
    \E j \in (i + 1)..Len(inflight) : inflight[j].op = inflight[i].op

\* The step that completes a request of searchMessages, viewContext or
\* promptReact runs the handler to its end: the request is gone and the
\* panel does not show the call's loading placeholder, or a later call for
\* the panel is in flight.
MessagesCompletion ==
    \A i \in 1..Len(inflight) :
        (inflight[i].op # "flag" /\ inflight' = RemoveAt(inflight, i)) =>
            \/ LaterCall(i)
            \/ /\ inflight[i].op = "search" => messagesList'.placeholder # "Loading..."
               /\ inflight[i].op = "context" => contextList'.placeholder # "Loading context..."
               /\ inflight[i].op = "reactions" => emojiList'.placeholder # "Fetching reactions..."

\* The same for fetchStats.
StatsCompletion ==
    \A i \in 1..Len(statsInflight) :
        statsInflight' = RemoveAt(statsInflight, i) =>
            \/ i < Len(statsInflight)
            \/ frequencyTable'.placeholder # "Loading stats..."

\* C14: whenever a request of searchMessages, viewContext, promptReact or
\* fetchStats completes, with whatever outcome, the handler runs to its end
\* and the panel no longer shows that call's loading placeholder unless a
\* later call for the same panel is in flight; and in every state the
\* search button and the tab buttons are still served (as far as the bound
\* on requests in flight allows).
C14_CompletionEndsLoading ==
    /\ [][MessagesCompletion /\ StatsCompletion]_vars
    /\ [](Len(inflight) < MaxInFlight => ENABLED searchMessages)
    /\ [](Len(statsInflight) < MaxStatsInFlight => ENABLED tabClick("stats"))

\* C14 for fetchStats with overlapping calls.
C14_StatsOverlap == [][StatsCompletion]_vars

\* Every request has completed and each of the four panels shows the
\* placeholder of a failure.
C14_Witness ==
    /\ inflight = << >>
    /\ statsInflight = << >>
    /\ messagesList.placeholder = "Error fetching data. Is the backend running?"
    /\ contextList.placeholder = "Error fetching context."
    /\ emojiList.placeholder = "Network error."
    /\ frequencyTable.placeholder = "Error fetching stats."

=============================================================================
